---- MODULE Spec2Model ----
(***************************************************************************)
(* A model of src/binsem.c: the binary semaphore (binsem_init, binsem_up,  *)
(* binsem_down) and the user-thread library (ut_init, ut_spawn_thread,     *)
(* ut_start, ut_get_vtime, release_memory, thread_signals_handler).        *)
(*                                                                         *)
(* One operating-system thread executes.  A "flow" is a logical thread of  *)
(* control: the caller of the library (MainFlow) or the entry function of  *)
(* the thread spawned into slot k (flow k).  The ucontext_t stored in a    *)
(* slot is modelled by the flow it resumes; the position of each flow is   *)
(* pc[flow].  The handler runs with every signal masked (sa_mask is full), *)
(* so one handler invocation is one step; a flow switched out inside the   *)
(* handler resumes, when switched in, by returning from the handler to its *)
(* pc.                                                                     *)
(*                                                                         *)
(* The heap is modelled by the status of each pointer the library owns:    *)
(* "live", "freed" (freed once), "freed2" (freed more than once), "null",  *)
(* "wild" (an uninitialised, non-null pointer).  Memory returned by malloc *)
(* is uninitialised: each slot of a fresh table is either zero-filled or   *)
(* junk.  Use of freed or uninitialised memory is undefined behaviour and  *)
(* is modelled as a choice between a crash and going on with the stale     *)
(* bytes.                                                                  *)
(*                                                                         *)
(* When the process ends (exit, a fatal signal, a fault) its flows, timers *)
(* and handlers cease to exist: the model resets them and keeps the table, *)
(* the scheduler's indices and the record of what was freed.               *)
(***************************************************************************)
EXTENDS Integers, FiniteSets, Sequences, TLC

(***************************************************************************)
(* Constants of ut.h (not part of src/): the values are modelled from the  *)
(* specification's names; MAX_TAB_SIZE is scaled down to keep the model    *)
(* finite and small.                                                       *)
(***************************************************************************)
MIN_TAB_SIZE == 2
MAX_TAB_SIZE == 3
SYS_ERR == -1
TAB_FULL == -2

(* src/binsem.c:63-65 *)
QUANTUM == 1
INTERVAL_MICRO == 100

(* Bound of the model: virtual-clock ticks one slot may accumulate. *)
MaxTicks == 1

VARIABLES
    proc,               \* "run" | "exited" | "crashed": the process
    threads_table,      \* the pointer: "NULL" | "live" | "freed" | "freed2"
    threads_table_size,
    next_position,
    curr_thread,
    vtime,
    slots,              \* the bytes of the table: slot -> [uc, stack, vtime]
    old_sigaction,      \* sa_handler saved by ut_start
    installed,          \* signals whose handler is thread_signals_handler
    alarm,              \* a SIGALRM of alarm() is pending
    itimer,             \* ITIMER_VIRTUAL is armed
    sem,                \* the shared sem_t
    running,            \* the flow that executes
    pc,                 \* flow -> position
    result,             \* the value a library call returned to MainFlow in the
                        \* last step; NoResult when none returned
    doubleFree,         \* the last step called free() on a freed block
    wildFree,           \* the last step called free() on an uninitialised pointer
    leaked,             \* the last step allocated a block and lost its pointer
    sem_init_pos,       \* the last binsem_init stored 1
    up_since_down,      \* the threads that have called binsem_up since the
                        \* last exchange of a binsem_down, or binsem_init
    sigmask,            \* the signals blocked in the flow that executes
    uc_sigmask,         \* flow -> the signal mask kept in its saved context
    frames              \* flow -> its handler invocations that have not
                        \* returned, oldest first: [sig, stage, saved]

vars == <<proc, threads_table, threads_table_size, next_position, curr_thread,
          vtime, slots, old_sigaction, installed, alarm, itimer, sem, running,
          pc, result, doubleFree, wildFree, leaked, sem_init_pos, up_since_down,
          sigmask, uc_sigmask, frames>>

(* The state of the signal masks and of the handler invocations.  A step   *)
(* of Spec is a whole handler invocation, up to the point where the flow   *)
(* it switches to is back in its own code: between such steps no flow      *)
(* executes handler code and no signal is blocked, and these variables     *)
(* keep their initial values.  MaskSpec, below, takes the handler apart.   *)
hvars == <<sigmask, uc_sigmask, frames>>

Slots == 0 .. (MAX_TAB_SIZE - 1)
MainFlow == MAX_TAB_SIZE
Threads == Slots
Flows == Threads \cup {MainFlow}
NoContext == 0 - 1
NoResult == 0 - 3
JunkVtime == 7
Signals == {"ALRM", "VTALRM", "INT"}
(* The SIGINT handler the process had before ut_start: SIG_DFL, SIG_IGN,   *)
(* a function that returns, a function that ends the process.              *)
PriorHandlers == {"DFL", "IGN", "USR_RET", "USR_EXIT"}

(* bytes of a slot after malloc: zero-filled or junk *)
ZeroSlot == [uc |-> NoContext, stack |-> "null", vtime |-> 0]
JunkSlot == [uc |-> NoContext, stack |-> "wild", vtime |-> JunkVtime]
NoSlot == [uc |-> NoContext, stack |-> "none", vtime |-> 0]

Init ==
    /\ proc = "run"
    /\ threads_table = "NULL"
    /\ threads_table_size = 0
    /\ next_position = 0
    /\ curr_thread = 0
    /\ vtime = 0
    /\ slots = [i \in Slots |-> NoSlot]
    /\ old_sigaction = "NULL"
    /\ installed = {}
    /\ alarm = FALSE
    /\ itimer = FALSE
    /\ sem = 0
    /\ running = MainFlow
    /\ pc = [f \in Flows |-> IF f = MainFlow THEN "idle" ELSE "none"]
    /\ result = NoResult
    /\ doubleFree = FALSE
    /\ wildFree = FALSE
    /\ leaked = FALSE
    /\ sem_init_pos = FALSE
    /\ up_since_down = {}
    /\ sigmask = {}
    /\ uc_sigmask = [f \in Flows |-> {}]
    /\ frames = [f \in Flows |-> << >>]

----------------------------------------------------------------------------
(* binsem_init, lines 15-21 *)
SemInitValue(init_val) == IF init_val > 0 THEN 1 ELSE 0

(* free(p) on the status of p *)
FreeBlock(st) ==
    CASE st = "live" -> "freed"
      [] st = "freed" -> "freed2"
      [] OTHER -> st

IsDoubleFree(st) == st \in {"freed", "freed2"}

(* release_memory, lines 139-143: the pointers handed to free() *)
ReleaseRange == {i \in Slots : i < threads_table_size}

ReleasedSlots ==
    [i \in Slots |-> IF i \in ReleaseRange
                     THEN [slots[i] EXCEPT !.stack = FreeBlock(@)]
                     ELSE slots[i]]

ReleaseDoubleFree ==
    \/ IsDoubleFree(threads_table)
    \/ \E i \in ReleaseRange : IsDoubleFree(slots[i].stack)

ReleaseWildFree == \E i \in ReleaseRange : slots[i].stack = "wild"

NoClamp(tab_size) == tab_size

(* ut_init, lines 92-93 *)
ClampTabSize(tab_size) ==
    IF tab_size > MAX_TAB_SIZE \/ tab_size < MIN_TAB_SIZE
    THEN MAX_TAB_SIZE
    ELSE tab_size

KeptIndex == curr_thread

(* ut_init, line 98: the value given to curr_thread *)
ResetIndex == 0

(* A step that neither frees nor loses a block. *)
NoHeapEvent == doubleFree' = FALSE /\ wildFree' = FALSE /\ leaked' = FALSE

MainIdle == proc = "run" /\ running = MainFlow /\ pc[MainFlow] = "idle"

(* The process ends: kind is "exited" or "crashed". *)
Dead(kind) ==
    /\ proc' = kind
    /\ pc' = [f \in Flows |-> "none"]
    /\ running' = MainFlow
    /\ alarm' = FALSE
    /\ itimer' = FALSE
    /\ installed' = {}
    /\ sem' = 0
    /\ sem_init_pos' = FALSE
    /\ up_since_down' = {}
    /\ result' = NoResult
    /\ old_sigaction' = "NULL"

(* Outcomes of a step that reads or writes memory through `ptr`: a null    *)
(* pointer faults; a freed block is undefined behaviour.                   *)
AccessOutcomes(ptr) ==
    CASE ptr = "NULL" -> {"crash"}
      [] ptr = "live" -> {"go"}
      [] OTHER -> {"go", "crash"}

(* The caller spawns its threads before ut_start has installed the         *)
(* scheduler's handlers, not after; it calls ut_init before that or as its *)
(* next step when ut_start has returned.                                   *)
SchedulerInstalled == installed = Signals

----------------------------------------------------------------------------
(* binsem_init(s, init_val), lines 15-21.  The caller initialises the      *)
(* semaphore before it starts the threads that share it.                   *)
binsem_init(init_val) ==
    /\ UNCHANGED hvars
    /\ MainIdle
    /\ installed = {}
    /\ ~itimer
    /\ sem' = SemInitValue(init_val)
    /\ sem_init_pos' = (init_val > 0)
    /\ up_since_down' = {}
    /\ NoHeapEvent
    /\ result' = NoResult
    /\ UNCHANGED <<proc, threads_table, threads_table_size, next_position,
                   curr_thread, vtime, slots, old_sigaction, installed, alarm,
                   itimer, running, pc>>

(* ut_init(tab_size), lines 91-104.  mallocOk: the outcome of malloc;      *)
(* junk: which slots of the new block hold junk rather than zeroes;        *)
(* access: the outcome of release_memory reading the old table.            *)
ut_init(tab_size, mallocOk, junk, access) ==
    /\ UNCHANGED hvars
    /\ MainIdle
    /\ ~SchedulerInstalled \/ result = SYS_ERR
    /\ IF threads_table # "NULL"
       THEN /\ doubleFree' = ReleaseDoubleFree
            /\ wildFree' = ReleaseWildFree
       ELSE /\ doubleFree' = FALSE
            /\ wildFree' = FALSE
    /\ leaked' = FALSE
    /\ IF access = "crash"
       THEN /\ Dead("crashed")
            /\ threads_table' = FreeBlock(threads_table)
            /\ slots' = ReleasedSlots
            /\ UNCHANGED <<threads_table_size, next_position, curr_thread>>
       ELSE /\ threads_table_size' = ClampTabSize(tab_size)
            /\ next_position' = 0
            /\ curr_thread' = ResetIndex
            /\ IF mallocOk
               THEN /\ threads_table' = "live"
                    /\ slots' = [i \in Slots |->
                                   IF i >= ClampTabSize(tab_size) THEN NoSlot
                                   ELSE IF i \in junk THEN JunkSlot ELSE ZeroSlot]
                    /\ result' = 0
               ELSE /\ threads_table' = "NULL"
                    /\ slots' = [i \in Slots |-> NoSlot]
                    /\ result' = SYS_ERR
            /\ pc' = [f \in Flows |-> IF f = MainFlow THEN pc[f] ELSE "none"]
            /\ UNCHANGED <<proc, old_sigaction, installed, alarm, itimer, sem,
                           running, sem_init_pos, up_since_down>>
    /\ UNCHANGED vtime

(* ut_spawn_thread(func, arg), lines 112-126.  outcome: "ok", "nostack"    *)
(* (malloc returns NULL), "noctx" (getcontext returns -1); access: the     *)
(* outcome of writing the slot.                                            *)
UnresetSlot(tid) == [uc |-> tid, stack |-> "live", vtime |-> slots[tid].vtime]

SpawnedSlot(tid) == [uc |-> tid, stack |-> "live", vtime |-> 0]

TableOverfull == next_position > threads_table_size

(* line 113 *)
TableFull == next_position = threads_table_size

ut_spawn_thread(outcome, access) ==
    /\ UNCHANGED hvars
    /\ MainIdle
    /\ ~SchedulerInstalled
    /\ doubleFree' = FALSE
    /\ wildFree' = FALSE
    /\ IF TableFull
       THEN /\ result' = TAB_FULL
            /\ leaked' = FALSE
            /\ UNCHANGED <<proc, next_position, slots, pc, running, sem,
                           sem_init_pos, up_since_down, alarm, itimer, installed,
                           old_sigaction>>
       ELSE IF outcome = "nostack"
       THEN /\ result' = SYS_ERR
            /\ leaked' = FALSE
            /\ UNCHANGED <<proc, next_position, slots, pc, running, sem,
                           sem_init_pos, up_since_down, alarm, itimer, installed,
                           old_sigaction>>
       ELSE IF access = "crash"
       THEN /\ Dead("crashed")
            /\ leaked' = FALSE
            /\ UNCHANGED <<next_position, slots>>
       ELSE IF outcome = "noctx"
       THEN /\ result' = SYS_ERR
            /\ leaked' = TRUE
            /\ UNCHANGED <<proc, next_position, slots, pc, running, sem,
                           sem_init_pos, up_since_down, alarm, itimer, installed,
                           old_sigaction>>
       ELSE /\ slots' = [slots EXCEPT ![next_position] = SpawnedSlot(next_position)]
            /\ pc' = [pc EXCEPT ![next_position] = "idle"]
            /\ result' = next_position
            /\ next_position' = next_position + 1
            /\ leaked' = FALSE
            /\ UNCHANGED <<proc, running, sem, sem_init_pos, up_since_down, alarm, itimer,
                           installed, old_sigaction>>
    /\ UNCHANGED <<threads_table, threads_table_size, curr_thread, vtime>>

(* ut_get_vtime(tid), lines 221-226: the value returned when the read of   *)
(* the table does not fault                                                *)
GetVtimeValue(tid) ==
    IF 0 <= tid /\ tid < threads_table_size THEN slots[tid].vtime ELSE 0

(* ut_get_vtime(tid) called by MainFlow, while it is not itself scheduled; *)
(* at any other time a call returns GetVtimeValue(tid) as well.            *)
ut_get_vtime(tid, access) ==
    /\ UNCHANGED hvars
    /\ MainIdle
    /\ ~SchedulerInstalled
    /\ IF 0 <= tid /\ tid < threads_table_size
       THEN IF access = "crash"
            THEN Dead("crashed")
            ELSE /\ result' = GetVtimeValue(tid)
                 /\ UNCHANGED <<proc, pc, running, sem, sem_init_pos, up_since_down, alarm,
                                itimer, installed, old_sigaction>>
       ELSE /\ result' = 0
            /\ UNCHANGED <<proc, pc, running, sem, sem_init_pos, up_since_down, alarm,
                           itimer, installed, old_sigaction>>
    /\ NoHeapEvent
    /\ UNCHANGED <<threads_table, threads_table_size, next_position,
                   curr_thread, vtime, slots>>

(* MainFlow leaves main(): the process ends. *)
MainExit ==
    /\ UNCHANGED hvars
    /\ MainIdle
    /\ Dead("exited")
    /\ NoHeapEvent
    /\ UNCHANGED <<threads_table, threads_table_size, next_position,
                   curr_thread, vtime, slots>>

----------------------------------------------------------------------------
(* thread_signals_handler, lines 162-183 *)

SkipThread(c, n) == (c + 2) % n

StayThread(c, n) == c % n

(* line 167 *)
NextThread(c, n) == (c + 1) % n

(* alarm(seconds), lines 43, 165, 178, 212: an alarm is pending after the  *)
(* call iff seconds is not 0                                               *)
AlarmArmed(seconds) == seconds > 0

(* How the swapcontext of line 168 ends.  swapOk: it does not return -1.   *)
SwitchFate(access, swapOk) ==
    IF threads_table_size = 0 \/ access = "crash" THEN "crashed"
    ELSE IF ~swapOk THEN "exited"
    ELSE IF slots[NextThread(curr_thread, threads_table_size)].uc = NoContext
    THEN "crashed"
    ELSE "run"

(* SIGALRM branch, lines 164-172, run by the flow `running` whose position *)
(* on return from the handler is given by pcNow.                           *)
HandleSIGALRM(pcNow, access, swapOk) ==
    /\ curr_thread' = IF threads_table_size = 0 THEN curr_thread
                      ELSE NextThread(curr_thread, threads_table_size)
    /\ slots' = IF threads_table_size = 0 \/ access = "crash" \/ ~swapOk
                THEN slots
                ELSE [slots EXCEPT ![curr_thread].uc = running]
    /\ IF SwitchFate(access, swapOk) = "run"
       THEN /\ alarm' = AlarmArmed(QUANTUM)
            /\ pc' = pcNow
            /\ running' = slots[NextThread(curr_thread, threads_table_size)].uc
            /\ result' = NoResult
            /\ UNCHANGED <<proc, itimer, installed, sem, sem_init_pos,
                           up_since_down, old_sigaction>>
       ELSE Dead(SwitchFate(access, swapOk))

(* SIGVTALRM branch, lines 173-176 *)
HandleSIGVTALRM(access) ==
    /\ vtime' = vtime + INTERVAL_MICRO
    /\ IF access = "crash"
       THEN Dead("crashed") /\ UNCHANGED slots
       ELSE /\ slots' = [slots EXCEPT ![curr_thread].vtime = @ + INTERVAL_MICRO]
            /\ result' = NoResult
            /\ UNCHANGED <<proc, pc, running, sem, sem_init_pos, up_since_down,
                           alarm, itimer, installed, old_sigaction>>

(* How the SIGINT branch ends.  handler: old_sigaction.sa_handler;         *)
(* SIG_IGN is the non-null address 1, so calling it faults; release_memory *)
(* exits when there is no table.                                           *)
SigintFate(handler, access) ==
    IF handler = "IGN" THEN "crashed"
    ELSE IF handler = "USR_EXIT" THEN "exited"
    ELSE IF threads_table = "NULL" THEN "exited"
    ELSE IF access = "crash" THEN "crashed"
    ELSE "run"

(* release_memory is reached, with a table to release (lines 180-181, 139) *)
SigintReleases(handler) ==
    handler \notin {"IGN", "USR_EXIT"} /\ threads_table # "NULL"

(* The handler found at line 179, as far as a SIGINT that the process      *)
(* survives tells.                                                         *)
Observed(handler) ==
    IF old_sigaction = "NULL" THEN "NULL" ELSE "prior_returns"

(* SIGINT branch, lines 177-182, with release_memory, lines 137-147 *)
HandleSIGINT(handler, access) ==
    /\ IF SigintReleases(handler)
       THEN /\ threads_table' = FreeBlock(threads_table)
            /\ slots' = ReleasedSlots
            /\ doubleFree' = ReleaseDoubleFree
            /\ wildFree' = ReleaseWildFree
       ELSE /\ doubleFree' = FALSE
            /\ wildFree' = FALSE
            /\ UNCHANGED <<threads_table, slots>>
    /\ IF SigintFate(handler, access) = "run"
       THEN /\ alarm' = AlarmArmed(0)
            /\ old_sigaction' = Observed(handler)
            /\ result' = NoResult
            /\ UNCHANGED <<proc, pc, running, sem, sem_init_pos, up_since_down,
                           itimer, installed>>
       ELSE Dead(SigintFate(handler, access))

----------------------------------------------------------------------------
(* Delivery of the signals to the running flow. *)

AlarmTick(access, swapOk) ==
    /\ UNCHANGED hvars
    /\ proc = "run"
    /\ alarm
    /\ "ALRM" \in installed
    /\ HandleSIGALRM(pc, access, swapOk)
    /\ NoHeapEvent
    /\ UNCHANGED <<threads_table, threads_table_size, next_position, vtime>>

VTickBound ==
    /\ vtime < MAX_TAB_SIZE * MaxTicks * INTERVAL_MICRO
    /\ slots[curr_thread].vtime < MaxTicks * INTERVAL_MICRO

(* A SIGVTALRM without the handler ends the process (default action). *)
VirtualTick(access) ==
    /\ UNCHANGED hvars
    /\ proc = "run"
    /\ itimer
    /\ VTickBound
    /\ IF "VTALRM" \in installed
       THEN HandleSIGVTALRM(access)
       ELSE Dead("exited") /\ UNCHANGED <<vtime, slots>>
    /\ NoHeapEvent
    /\ UNCHANGED <<threads_table, threads_table_size, next_position,
                   curr_thread>>

(* old_sigaction.sa_handler as the handler reads it at line 179: NULL when *)
(* ut_start stored nothing, else the handler the process had before        *)
(* ut_start, which this read observes.                                     *)
OldHandlers ==
    CASE old_sigaction = "NULL" -> {"DFL"}
      [] old_sigaction = "prior" -> PriorHandlers
      [] OTHER -> {"DFL", "USR_RET"}

Sigint(handler, access) ==
    /\ UNCHANGED hvars
    /\ proc = "run"
    /\ "INT" \in installed
    /\ HandleSIGINT(handler, access)
    /\ leaked' = FALSE
    /\ UNCHANGED <<threads_table_size, next_position, curr_thread, vtime>>

----------------------------------------------------------------------------
(* ut_start, lines 196-215.  The caller starts the scheduler once.         *)

(* lines 204-211.  timerOk: sigfillset and setitimer succeed; succeeded:   *)
(* the signals whose sigaction(sig, &sa, NULL) succeeds; queryOk: the      *)
(* sigaction that reads the prior SIGINT handler succeeds.                 *)
ut_start_install(timerOk, succeeded, queryOk) ==
    /\ UNCHANGED hvars
    /\ MainIdle
    /\ installed = {}
    /\ ~itimer
    /\ IF ~timerOk
       THEN /\ result' = SYS_ERR
            /\ UNCHANGED <<itimer, installed, old_sigaction, pc>>
       ELSE /\ itimer' = TRUE
            /\ installed' = succeeded
            /\ old_sigaction' = IF queryOk THEN "prior" ELSE old_sigaction
            /\ IF succeeded = Signals /\ queryOk
               THEN /\ pc' = [pc EXCEPT ![MainFlow] = "start_armed"]
                    /\ result' = NoResult
               ELSE /\ result' = SYS_ERR
                    /\ UNCHANGED pc
    /\ NoHeapEvent
    /\ UNCHANGED <<proc, threads_table, threads_table_size, next_position,
                   curr_thread, vtime, slots, alarm, sem, running,
                   sem_init_pos, up_since_down>>

StartIgnoresFailure(access, swapOk) ==
    IF access = "crash" \/ slots[0].uc = NoContext THEN "crashed" ELSE "run"

(* How the swapcontext of line 213 ends. *)
StartFate(access, swapOk) ==
    IF access = "crash" THEN "crashed"
    ELSE IF ~swapOk THEN "failed"
    ELSE IF slots[0].uc = NoContext THEN "crashed"
    ELSE "run"

(* lines 212-214 *)
ut_start_switch(access, swapOk) ==
    /\ UNCHANGED hvars
    /\ proc = "run"
    /\ running = MainFlow
    /\ pc[MainFlow] = "start_armed"
    /\ CASE StartFate(access, swapOk) = "crashed" -> Dead("crashed")
         [] StartFate(access, swapOk) = "failed" ->
              /\ alarm' = AlarmArmed(QUANTUM)
              /\ result' = SYS_ERR
              /\ pc' = [pc EXCEPT ![MainFlow] = "idle"]
              /\ UNCHANGED <<proc, running, itimer, installed, sem,
                             sem_init_pos, up_since_down, old_sigaction>>
         [] OTHER ->
              /\ alarm' = AlarmArmed(QUANTUM)
              /\ running' = slots[0].uc
              /\ pc' = [pc EXCEPT ![MainFlow] = "in_start"]
              /\ result' = NoResult
              /\ UNCHANGED <<proc, itimer, installed, sem, sem_init_pos,
                             up_since_down, old_sigaction>>
    /\ NoHeapEvent
    /\ UNCHANGED <<threads_table, threads_table_size, next_position,
                   curr_thread, vtime, slots>>

----------------------------------------------------------------------------
(* The entry function of a spawned thread: it loops, acquiring the         *)
(* semaphore, running its critical section and releasing the semaphore;    *)
(* it may also return.  MainFlow calls no semaphore operation but          *)
(* binsem_init.                                                            *)

Runs(f) == proc = "run" /\ running = f

(* xchg(s, v): the value read; the value stored is v (lines 31, 42) *)
XchgOld == sem

UpKeeps == sem

(* binsem_up, line 31: the value stored *)
UpValue == 1

(* Positions of a thread in its own code, outside binsem_down and outside  *)
(* its critical section: "idle" before its first acquisition and after a   *)
(* failed binsem_down, "released" after binsem_up.                         *)
UserCode == {"idle", "released"}

DownNeverContended(old) == old < 0

(* binsem_down, line 42: the test of the value read *)
DownContended(old) == old = 0

(* binsem_down, line 42: the exchange and the test; line 47: return 0,     *)
(* upon which the caller enters its critical section.                      *)
binsem_down(f) ==
    /\ UNCHANGED hvars
    /\ Runs(f)
    /\ pc[f] \in UserCode
    /\ sem' = 0
    /\ up_since_down' = {}
    /\ pc' = [pc EXCEPT ![f] = IF DownContended(XchgOld) THEN "down_yield" ELSE "cs"]
    /\ NoHeapEvent
    /\ result' = NoResult
    /\ UNCHANGED <<proc, threads_table, threads_table_size, next_position,
                   curr_thread, vtime, slots, old_sigaction, installed, alarm,
                   itimer, running, sem_init_pos>>

(* The value binsem_down returns on the contended path: raise's (line 44). *)
RaiseValue(raiseOk) == IF raiseOk THEN 0 ELSE SYS_ERR

(* Where the caller goes with the value binsem_down returned: into its     *)
(* critical section on 0, back to try again otherwise.                     *)
AfterDown(value) == IF value = 0 THEN "cs" ELSE "idle"

(* binsem_down, lines 43-44: alarm(0); raise(SIGALRM).  raiseOk: raise     *)
(* delivers the signal; the handler runs before raise returns, and raise   *)
(* returns once this flow has been switched in again.                      *)
binsem_down_yield(f, raiseOk, access, swapOk) ==
    /\ UNCHANGED hvars
    /\ Runs(f)
    /\ pc[f] = "down_yield"
    /\ IF raiseOk
       THEN HandleSIGALRM([pc EXCEPT ![f] = "down_ret"], access, swapOk)
       ELSE /\ pc' = [pc EXCEPT ![f] = AfterDown(RaiseValue(raiseOk))]
            /\ alarm' = AlarmArmed(0)
            /\ result' = NoResult
            /\ UNCHANGED <<proc, curr_thread, slots, running, itimer,
                           installed, sem, sem_init_pos, up_since_down,
                           old_sigaction>>
    /\ NoHeapEvent
    /\ UNCHANGED <<threads_table, threads_table_size, next_position, vtime>>

(* binsem_down returns raise's value after the forced switch. *)
binsem_down_return(f) ==
    /\ UNCHANGED hvars
    /\ Runs(f)
    /\ pc[f] = "down_ret"
    /\ pc' = [pc EXCEPT ![f] = AfterDown(RaiseValue(TRUE))]
    /\ NoHeapEvent
    /\ result' = NoResult
    /\ UNCHANGED <<proc, threads_table, threads_table_size, next_position,
                   curr_thread, vtime, slots, old_sigaction, installed, alarm,
                   itimer, sem, running, sem_init_pos, up_since_down>>

(* binsem_up, lines 30-32, at the end of the critical section *)
binsem_up(f) ==
    /\ UNCHANGED hvars
    /\ Runs(f)
    /\ pc[f] = "cs"
    /\ sem' = UpValue
    /\ up_since_down' = up_since_down \cup {f}
    /\ pc' = [pc EXCEPT ![f] = "released"]
    /\ NoHeapEvent
    /\ result' = NoResult
    /\ UNCHANGED <<proc, threads_table, threads_table_size, next_position,
                   curr_thread, vtime, slots, old_sigaction, installed, alarm,
                   itimer, running, sem_init_pos>>

(* The entry function returns: uc_link (line 118) resumes uc_out, the      *)
(* context saved by ut_start at line 213, and ut_start returns SYS_ERR     *)
(* (line 214).  uc_out is current only while MainFlow is still inside      *)
(* ut_start; resuming it again is undefined.                               *)
ThreadReturn(f, access) ==
    /\ UNCHANGED hvars
    /\ Runs(f)
    /\ f \in Threads
    /\ pc[f] \in UserCode
    /\ IF access = "crash"
       THEN Dead("crashed")
       ELSE /\ running' = MainFlow
            /\ pc' = [pc EXCEPT ![MainFlow] = "idle"]
            /\ result' = SYS_ERR
            /\ UNCHANGED <<proc, alarm, itimer, installed, sem, sem_init_pos, up_since_down,
                           old_sigaction>>
    /\ NoHeapEvent
    /\ UNCHANGED <<threads_table, threads_table_size, next_position,
                   curr_thread, vtime, slots>>

UcOutOutcomes == IF pc[MainFlow] = "in_start" THEN {"go"} ELSE {"go", "crash"}

----------------------------------------------------------------------------
TabSizeInputs == (MIN_TAB_SIZE - 1) .. (MAX_TAB_SIZE + 1)
InitValInputs == {0 - 1, 0, 1, 2}
TidInputs == (0 - 1) .. MAX_TAB_SIZE
TableOutcomes == AccessOutcomes(threads_table)
(* The new block is zero-filled, or junk throughout. *)
JunkInputs(ts, ok, a) ==
    IF ok /\ a = "go" THEN {{}, 0 .. (ClampTabSize(ts) - 1)} ELSE {{}}
ReleaseOutcomes == IF threads_table = "NULL" THEN {"go"} ELSE TableOutcomes

Next ==
    \/ \E v \in InitValInputs : binsem_init(v)
    \/ \E ts \in TabSizeInputs, ok \in BOOLEAN, a \in ReleaseOutcomes :
          \E junk \in JunkInputs(ts, ok, a) : ut_init(ts, ok, junk, a)
    \/ \E o \in {"ok", "nostack", "noctx"}, a \in TableOutcomes :
          ut_spawn_thread(o, a)
    \/ \E tid \in TidInputs, a \in TableOutcomes : ut_get_vtime(tid, a)
    \/ \E t \in BOOLEAN, s \in SUBSET Signals, q \in BOOLEAN :
          ut_start_install(t, s, q)
    \/ \E a \in TableOutcomes, ok \in BOOLEAN : ut_start_switch(a, ok)
    \/ MainExit
    \/ \E f \in Threads : binsem_down(f)
    \/ \E f \in Threads, r \in BOOLEAN, a \in TableOutcomes, ok \in BOOLEAN :
          binsem_down_yield(f, r, a, ok)
    \/ \E f \in Threads : binsem_down_return(f)
    \/ \E f \in Threads : binsem_up(f)
    \/ \E f \in Threads, a \in UcOutOutcomes : ThreadReturn(f, a)
    \/ \E a \in TableOutcomes, ok \in BOOLEAN : AlarmTick(a, ok)
    \/ \E a \in TableOutcomes : VirtualTick(a)
    \/ \E h \in OldHandlers, a \in ReleaseOutcomes : Sigint(h, a)

Spec == Init /\ [][Next]_vars

----------------------------------------------------------------------------
(* The runs in which nothing fails and nothing ends the threads: malloc,   *)
(* getcontext, sigaction, setitimer, swapcontext and raise succeed, no     *)
(* SIGINT arrives and no entry function returns.  Both timers are          *)
(* periodic or re-armed by the handler (lines 165, 201-206), so the alarm  *)
(* is delivered whenever it stays pending, and the virtual clock, which    *)
(* advances while the process computes, ticks in the turns of every        *)
(* thread that is scheduled again and again.                               *)
VirtualTickOn(i) == curr_thread = i /\ VirtualTick("go")

NextFair ==
    \/ \E v \in InitValInputs : binsem_init(v)
    \/ \E ts \in TabSizeInputs : \E junk \in JunkInputs(ts, TRUE, "go") :
          threads_table = "NULL" /\ ut_init(ts, TRUE, junk, "go")
    \/ threads_table = "live" /\ ut_spawn_thread("ok", "go")
    \/ threads_table = "live" /\ TableFull /\ ut_start_install(TRUE, Signals, TRUE)
    \/ ut_start_switch("go", TRUE)
    \/ \E f \in Threads : binsem_down(f)
    \/ \E f \in Threads : binsem_down_yield(f, TRUE, "go", TRUE)
    \/ \E f \in Threads : binsem_down_return(f)
    \/ \E f \in Threads : binsem_up(f)
    \/ AlarmTick("go", TRUE)
    \/ \E i \in Slots : VirtualTickOn(i)

FairSpec ==
    /\ Init
    /\ [][NextFair]_vars
    /\ WF_vars(AlarmTick("go", TRUE))
    /\ \A i \in Slots : SF_vars(VirtualTickOn(i))

----------------------------------------------------------------------------
(* The handler taken apart: a signal is delivered (the handler is entered  *)
(* with the signals of sa_mask blocked), the body of its branch runs, and  *)
(* the handler returns (the mask of the interrupted code is restored).  A  *)
(* flow switched out by swapcontext inside the handler keeps its           *)
(* invocation, and the mask it ran with, until it is switched in again.    *)
(* Nothing fails in these runs.                                            *)

(* Bound of the model: handler invocations of one flow that have not       *)
(* returned.                                                               *)
MaxFrames == 2

OnlyDelivered == {}

(* ut_start, line 204: sigfillset(&sa.sa_mask) *)
HandlerMask == Signals

(* ut_start, line 203: sa_flags has no SA_NODEFER, so the delivered signal *)
(* is blocked as well                                                      *)
BlockedIn(sig) == HandlerMask \cup {sig}

InUserCode(f) == frames[f] = << >>

TopFrame(f) == frames[f][Len(frames[f])]

InStage(f, sig, stage) ==
    /\ frames[f] # << >>
    /\ TopFrame(f).sig = sig
    /\ TopFrame(f).stage = stage

EnterHandler(f, sig) ==
    /\ frames' = [frames EXCEPT
                    ![f] = Append(@, [sig |-> sig, stage |-> "body",
                                      saved |-> sigmask])]
    /\ sigmask' = sigmask \cup BlockedIn(sig)
    /\ UNCHANGED uc_sigmask

BodyDone(f) ==
    frames' = [frames EXCEPT ![f] = [@ EXCEPT ![Len(@)].stage = "tail"]]

(* The kernel delivers a pending, unblocked signal to the running flow. *)
SignalPending(sig) ==
    CASE sig = "ALRM" -> alarm
      [] sig = "VTALRM" -> itimer /\ VTickBound
      [] OTHER -> threads_table = "live"

Deliver(sig) ==
    /\ proc = "run"
    /\ sig \in installed
    /\ sig \notin sigmask
    /\ SignalPending(sig)
    /\ Len(frames[running]) < MaxFrames
    /\ EnterHandler(running, sig)
    /\ NoHeapEvent
    /\ result' = NoResult
    /\ UNCHANGED <<proc, threads_table, threads_table_size, next_position,
                   curr_thread, vtime, slots, old_sigaction, installed, alarm,
                   itimer, sem, running, pc, sem_init_pos, up_since_down>>

(* binsem_down, lines 43-44: alarm(0); raise(SIGALRM) enters the handler   *)
(* before it returns.                                                      *)
Raise(f) ==
    /\ Runs(f)
    /\ InUserCode(f)
    /\ pc[f] = "down_yield"
    /\ "ALRM" \notin sigmask
    /\ alarm' = AlarmArmed(0)
    /\ pc' = [pc EXCEPT ![f] = "down_ret"]
    /\ EnterHandler(f, "ALRM")
    /\ NoHeapEvent
    /\ result' = NoResult
    /\ UNCHANGED <<proc, threads_table, threads_table_size, next_position,
                   curr_thread, vtime, slots, old_sigaction, installed,
                   itimer, sem, running, sem_init_pos, up_since_down>>

(* lines 164-172: swapcontext keeps the mask of the flow it saves and      *)
(* installs the mask kept in the context it resumes.                       *)
BodySIGALRM ==
    /\ proc = "run"
    /\ InStage(running, "ALRM", "body")
    /\ SwitchFate("go", TRUE) = "run"
    /\ HandleSIGALRM(pc, "go", TRUE)
    /\ BodyDone(running)
    /\ uc_sigmask' = [uc_sigmask EXCEPT ![running] = sigmask]
    /\ sigmask' = IF running' = running THEN sigmask ELSE uc_sigmask[running']
    /\ NoHeapEvent
    /\ UNCHANGED <<threads_table, threads_table_size, next_position, vtime>>

(* lines 173-176 *)
BodySIGVTALRM ==
    /\ proc = "run"
    /\ InStage(running, "VTALRM", "body")
    /\ HandleSIGVTALRM("go")
    /\ BodyDone(running)
    /\ NoHeapEvent
    /\ UNCHANGED <<threads_table, threads_table_size, next_position,
                   curr_thread, sigmask, uc_sigmask>>

(* lines 177-182, the saved SIGINT handler being SIG_DFL *)
BodySIGINT ==
    /\ proc = "run"
    /\ InStage(running, "INT", "body")
    /\ HandleSIGINT("DFL", "go")
    /\ BodyDone(running)
    /\ leaked' = FALSE
    /\ UNCHANGED <<threads_table_size, next_position, curr_thread, vtime,
                   sigmask, uc_sigmask>>

(* line 183: the handler returns to the code it interrupted *)
HandlerReturn ==
    /\ proc = "run"
    /\ frames[running] # << >>
    /\ TopFrame(running).stage = "tail"
    /\ sigmask' = TopFrame(running).saved
    /\ frames' = [frames EXCEPT ![running] = SubSeq(@, 1, Len(@) - 1)]
    /\ NoHeapEvent
    /\ result' = NoResult
    /\ UNCHANGED <<proc, threads_table, threads_table_size, next_position,
                   curr_thread, vtime, slots, old_sigaction, installed, alarm,
                   itimer, sem, running, pc, sem_init_pos, up_since_down,
                   uc_sigmask>>

NextMask ==
    \/ \E v \in InitValInputs : binsem_init(v)
    \/ \E ts \in TabSizeInputs : \E junk \in JunkInputs(ts, TRUE, "go") :
          threads_table = "NULL" /\ ut_init(ts, TRUE, junk, "go")
    \/ threads_table = "live" /\ ut_spawn_thread("ok", "go")
    \/ threads_table = "live" /\ TableFull /\ ut_start_install(TRUE, Signals, TRUE)
    \/ InUserCode(MainFlow) /\ ut_start_switch("go", TRUE)
    \/ \E f \in Threads : InUserCode(f) /\ binsem_down(f)
    \/ \E f \in Threads : InUserCode(f) /\ binsem_down_return(f)
    \/ \E f \in Threads : InUserCode(f) /\ binsem_up(f)
    \/ \E f \in Threads : Raise(f)
    \/ \E sig \in Signals : Deliver(sig)
    \/ BodySIGALRM
    \/ BodySIGVTALRM
    \/ BodySIGINT
    \/ HandlerReturn

MaskSpec == Init /\ [][NextMask]_vars

----------------------------------------------------------------------------
(* Properties.                                                             *)

InCS == {f \in Threads : pc[f] = "cs"}

TableComplete ==
    /\ threads_table # "NULL"
    /\ threads_table_size > 0
    /\ next_position = threads_table_size

Started == proc = "run" /\ pc[MainFlow] = "in_start"

(* C1: mutual exclusion.  The semaphore was initialised to 1, every thread *)
(* enters its critical section only when binsem_down has returned 0 and    *)
(* calls binsem_up when it leaves it: at most one thread is inside the     *)
(* critical section in every reachable state.                              *)
MutualExclusion ==
    (proc = "run" /\ sem_init_pos) => Cardinality(InCS) <= 1

(* C2: every SIGINT delivered after ut_start has switched to the threads,  *)
(* whatever their number, leaves each stack of ut_spawn_thread and the     *)
(* table freed exactly once: none unfreed, none freed twice, no pointer    *)
(* freed that was never allocated.  Stated for the deliveries from which   *)
(* the handler returns.                                                    *)
SigintFreesExactlyOnce ==
    [][ ( /\ Started
          /\ TableComplete
          /\ proc' = "run"
          /\ \E h \in OldHandlers, a \in ReleaseOutcomes : Sigint(h, a) )
        => /\ ~doubleFree'
           /\ ~wildFree'
           /\ threads_table' = "freed"
           /\ \A i \in ReleaseRange : slots'[i].stack = "freed" ]_vars

(* C3: once ut_start has performed the initial switch, the slot at         *)
(* curr_thread holds a context made by a successful ut_spawn_thread, after *)
(* every step that does not end in exit(), for every capacity and number   *)
(* of spawned threads.                                                     *)
RunningSlotValid ==
    [][ (Started /\ proc' # "exited") => slots'[curr_thread'].uc # NoContext ]_vars

(* C7: a binsem_down that read 0 returns a value from which its caller can *)
(* tell that it did not acquire the semaphore: the caller does not enter   *)
(* its critical section on that return.                                    *)
ContendedDownTellsFailure ==
    [][ \A f \in Threads : binsem_down_return(f) => pc'[f] # "cs" ]_vars

(* A step that handles a SIGALRM: one sent by the alarm, or one raised by  *)
(* a contended binsem_down.                                                *)
TimerPreemption == \E a \in TableOutcomes, ok \in BOOLEAN : AlarmTick(a, ok)

ForcedPreemption ==
    \E f \in Threads, a \in TableOutcomes, ok \in BOOLEAN :
        binsem_down_yield(f, TRUE, a, ok)

SuccessorSlot(r) == IF r + 1 = threads_table_size THEN 0 ELSE r + 1

(* C4: every SIGALRM handled after ut_start, from the alarm or from a      *)
(* contended binsem_down, moves the running index from r to (r + 1) mod    *)
(* capacity and, when the process survives the switch, saves the running   *)
(* flow in slot r and resumes the context of slot (r + 1) mod capacity;    *)
(* no other step of the started scheduler moves the running index, so the  *)
(* indices are visited in increasing order, wrapping to 0.                 *)
RoundRobin ==
    [][ /\ (TimerPreemption \/ ForcedPreemption)
           => /\ curr_thread' = SuccessorSlot(curr_thread)
              /\ proc' = "run"
                 => /\ running' = slots[SuccessorSlot(curr_thread)].uc
                    /\ slots'[curr_thread].uc = running
        /\ (Started /\ curr_thread' # curr_thread)
           => /\ TimerPreemption \/ ForcedPreemption
              /\ curr_thread' = SuccessorSlot(curr_thread) ]_vars

(* C4, reached: in a table of three threads, thread 2 was switched out by  *)
(* its contended binsem_down and the running index has wrapped to 0.       *)
RoundRobinWitness ==
    /\ Started
    /\ threads_table_size = 3
    /\ pc[2] = "down_ret"
    /\ curr_thread = 0
    /\ running = 0

RECURSIVE SlotVtimeSum(_)
SlotVtimeSum(n) == IF n = 0 THEN 0 ELSE slots[n - 1].vtime + SlotVtimeSum(n - 1)

(* C5: in a run that initialises a table of capacity N, spawns N threads   *)
(* and starts the scheduler, the virtual times of the N slots add up to    *)
(* the global virtual time in every reachable state.                       *)
VtimeSumIsGlobal ==
    (proc = "run" /\ SchedulerInstalled /\ TableComplete)
        => SlotVtimeSum(threads_table_size) = vtime

(* C5, reached: three threads, each of which has been charged a tick.      *)
VtimeSumWitness ==
    /\ Started
    /\ TableComplete
    /\ threads_table_size = 3
    /\ \A i \in Slots : slots[i].vtime > 0
    /\ vtime = 3 * INTERVAL_MICRO

(* The scheduler's state is left alone by the step. *)
NoReschedule ==
    /\ curr_thread' = curr_thread
    /\ running' = running
    /\ alarm' = alarm
    /\ slots' = slots

(* C8: binsem_init with an initial value greater than 0 stores 1; the      *)
(* semaphore keeps a 1 until a binsem_down exchanges it (or another       *)
(* binsem_init stores 0); a binsem_down                                    *)
(* that finds 1 returns success, leaves 0, and neither cancels the alarm   *)
(* nor raises SIGALRM; the semaphore keeps the 0 until a binsem_up or a    *)
(* binsem_init, and a binsem_down that finds 0 takes the contended path.   *)
InitThenDown ==
    [][ /\ \A v \in InitValInputs : (v > 0 /\ binsem_init(v)) => sem' = 1
        /\ (sem = 1 /\ sem' # 1 /\ proc' = "run")
           => \/ \E f \in Threads : binsem_down(f)
              \/ \E v \in InitValInputs : binsem_init(v)
        /\ (sem = 0 /\ sem' # 0)
           => \/ \E f \in Threads : binsem_up(f)
              \/ \E v \in InitValInputs : binsem_init(v)
        /\ \A f \in Threads :
              binsem_down(f)
              => IF sem = 1
                 THEN pc'[f] = "cs" /\ sem' = 0 /\ NoReschedule
                 ELSE pc'[f] = "down_yield" /\ sem' = 0 ]_vars

(* C8, reached: after binsem_init stored 1, thread 0 acquired the          *)
(* semaphore without a switch and thread 1, switched in by the alarm,      *)
(* found 0 and is on the contended path.                                   *)
InitThenDownWitness ==
    /\ Started
    /\ sem_init_pos
    /\ sem = 0
    /\ pc[0] = "cs"
    /\ pc[1] = "down_yield"
    /\ running = 1

SpawnBeyondCapacity ==
    [][ (\E o \in {"ok", "nostack", "noctx"}, a \in TableOutcomes :
            ut_spawn_thread(o, a))
        => /\ next_position = threads_table_size
              => /\ result' = TAB_FULL
                 /\ UNCHANGED <<proc, threads_table, threads_table_size,
                                next_position, curr_thread, vtime, slots,
                                old_sigaction, installed, alarm, itimer, sem,
                                running, pc>>
                 /\ ~leaked'
           /\ next_position < threads_table_size
              => /\ result' # TAB_FULL
                 /\ result' >= 0
                    => /\ result' = next_position
                       /\ next_position' = next_position + 1
                       /\ slots'[next_position].uc = next_position
                 /\ (result' < 0 \/ proc' # "run")
                    => UNCHANGED <<next_position, slots>> ]_vars

(* C10, reached: a table of capacity 3 holds three spawned threads and a   *)
(* fourth ut_spawn_thread has just returned TAB_FULL.                      *)
SpawnBeyondCapacityWitness ==
    /\ result = TAB_FULL
    /\ threads_table = "live"
    /\ threads_table_size = 3
    /\ next_position = 3
    /\ \A i \in Slots : slots[i].uc = i

(* C6: with capacity N, N spawned threads that never return, and fair      *)
(* delivery of SIGALRM and SIGVTALRM, every spawned thread eventually      *)
(* runs and eventually has a nonzero virtual time.                         *)
EveryThreadRuns ==
    \A i \in Slots :
        (Started /\ TableComplete /\ i < threads_table_size)
            ~> (running = i /\ <>(slots[i].vtime > 0))

(* C6, reached: the last of three threads runs and all three have been     *)
(* charged virtual time.                                                   *)
EveryThreadRunsWitness ==
    /\ Started
    /\ next_position = 3
    /\ running = 2
    /\ curr_thread = 2
    /\ slots[0].vtime > 0 /\ slots[1].vtime > 0 /\ slots[2].vtime > 0

(* C11: ut_get_vtime returns 0 for every id below 0, every id at or above  *)
(* the capacity and every id of a slot that was never spawned.             *)
VtimeZeroForInvalid ==
    [][ \A tid \in TidInputs, a \in TableOutcomes :
          ( /\ ut_get_vtime(tid, a)
            /\ proc' = "run"
            /\ tid < 0 \/ tid >= threads_table_size \/ tid >= next_position )
          => result' = 0 ]_vars

(* C12: for a requested capacity below MIN_TAB_SIZE or above MAX_TAB_SIZE  *)
(* the step of ut_init is a step of ut_init(MAX_TAB_SIZE), with capacity   *)
(* MAX_TAB_SIZE and both indices 0; for a requested capacity inside the    *)
(* range the capacity becomes the requested one.  The outcome of malloc    *)
(* and the junk of the new block are read off the state after the step.    *)
InitClampsCapacity ==
    [][ (MainIdle /\ proc' = "run" /\ result' # NoResult)
        => LET ok == threads_table' = "live"
               junk == {i \in Slots : slots'[i] = JunkSlot}
           IN  \A ts \in TabSizeInputs :
                 ut_init(ts, ok, junk, "go")
                 => IF ts < MIN_TAB_SIZE \/ ts > MAX_TAB_SIZE
                    THEN /\ ut_init(MAX_TAB_SIZE, ok, junk, "go")
                         /\ threads_table_size' = MAX_TAB_SIZE
                         /\ next_position' = 0
                         /\ curr_thread' = 0
                    ELSE threads_table_size' = ts ]_vars

(* C12, reached: ut_init has just returned 0 with a table of MAX_TAB_SIZE  *)
(* slots, none of them spawned, all of them holding junk.                  *)
InitClampsCapacityWitness ==
    /\ result = 0
    /\ threads_table = "live"
    /\ threads_table_size = MAX_TAB_SIZE
    /\ next_position = 0
    /\ curr_thread = 0
    /\ \A i \in Slots : slots[i] = JunkSlot

(* A SIGINT has been handled and the handler has returned: it freed the    *)
(* table and the process goes on.                                          *)
TornDown == proc = "run" /\ threads_table \in {"freed", "freed2"}

(* A thread executes a step of its own code. *)
ThreadStep ==
    \E f \in Threads :
        \/ binsem_down(f)
        \/ binsem_down_return(f)
        \/ binsem_up(f)
        \/ \E a \in UcOutOutcomes : ThreadReturn(f, a)

(* C13: once a SIGINT has been handled the timers are stopped and the      *)
(* process ends: no later SIGALRM switches contexts, no later SIGVTALRM    *)
(* is handled on a slot and no scheduled thread executes again.            *)
SigintEndsScheduling ==
    [][ (Started /\ TornDown)
        => /\ ~ThreadStep
           /\ ~TimerPreemption
           /\ ~ForcedPreemption
           /\ ~(\E a \in TableOutcomes : VirtualTick(a)) ]_vars

(* C14: a handler invocation starts, by delivery or by the raise of        *)
(* binsem_down, only when the running flow is executing no handler code;   *)
(* the invocations that have not returned are the running flow's single    *)
(* one and those of flows switched out inside the handler, which have      *)
(* finished their accesses to the scheduler's state; and all signals are   *)
(* blocked while the running flow executes handler code.                   *)
NoOverlappingHandlers ==
    [][ /\ ( \/ \E sig \in Signals : Deliver(sig)
             \/ \E f \in Threads : Raise(f) )
           => frames[running] = << >>
        /\ \A f \in Flows :
              /\ Len(frames'[f]) <= 1
              /\ \A k \in 1 .. Len(frames'[f]) :
                    frames'[f][k].stage = "body" => f = running'
        /\ frames'[running'] # << >> => sigmask' = Signals ]_vars

(* C14, reached: thread 0 was switched out inside the handler and has not  *)
(* returned from it, thread 1 runs its freshly spawned context with no     *)
(* signal blocked, and a SIGVTALRM has just been delivered to thread 1.    *)
NoOverlappingHandlersWitness ==
    /\ running = 1
    /\ frames[0] # << >>
    /\ frames[0][1].stage = "tail"
    /\ frames[1] # << >>
    /\ frames[1][1].sig = "VTALRM"
    /\ frames[1][1].stage = "body"
    /\ frames[1][1].saved = {}

(* The step is a ut_init that returns; the outcome of malloc and the junk  *)
(* of the new block are read off the state after the step.                 *)
UtInitReturns ==
    /\ MainIdle
    /\ proc' = "run"
    /\ result' # NoResult
    /\ LET ok == threads_table' = "live"
           junk == {i \in Slots : slots'[i] = JunkSlot}
       IN  \E ts \in TabSizeInputs : ut_init(ts, ok, junk, "go")

(* C15 as stated: the running index changes only in the SIGALRM branch of  *)
(* the handler; every other operation, ut_init included, leaves it         *)
(* unchanged.                                                              *)
IndexChangesOnlyInSwitch ==
    [][ curr_thread' # curr_thread
        => TimerPreemption \/ ForcedPreemption ]_vars

(* C15 amended: the running index changes only in the SIGALRM branch of    *)
(* the handler and in ut_init, which resets it to 0; every other           *)
(* operation leaves it unchanged.                                          *)
IndexChangesInSwitchOrInit ==
    [][ /\ curr_thread' # curr_thread
           => TimerPreemption \/ ForcedPreemption \/ UtInitReturns
        /\ UtInitReturns => curr_thread' = 0 ]_vars

(* C15, reached: ut_start has returned to its caller after the running     *)
(* index had advanced, and ut_init has just returned 0 with the running    *)
(* index back at 0.                                                        *)
IndexResetWitness ==
    /\ MainIdle
    /\ SchedulerInstalled
    /\ result = 0
    /\ threads_table = "live"
    /\ curr_thread = 0
    /\ next_position = 0
    /\ vtime > 0

(* C16: a ut_init called while a table exists, whatever its state (empty,  *)
(* partly or fully populated, or torn down by a SIGINT), frees the stack   *)
(* of every occupied slot once and the table once and frees nothing else,  *)
(* then allocates a table with both indices 0.                             *)
ReinitFreesExactlyOnce ==
    [][ \A ts \in TabSizeInputs, ok \in BOOLEAN, a \in ReleaseOutcomes :
          ( /\ MainIdle
            /\ threads_table # "NULL"
            /\ \E junk \in JunkInputs(ts, ok, a) : ut_init(ts, ok, junk, a) )
          => /\ proc' = "run"
             /\ ~doubleFree'
             /\ ~wildFree'
             /\ next_position' = 0
             /\ curr_thread' = 0 ]_vars

(* C17: a ut_spawn_thread that returns SYS_ERR leaves no partial thread:   *)
(* next_position and the slots are unchanged and no stack allocated by     *)
(* the call stays allocated.                                               *)
FailedSpawnLeavesNothing ==
    [][ ( /\ MainIdle
          /\ result' = SYS_ERR
          /\ \E o \in {"ok", "nostack", "noctx"}, a \in TableOutcomes :
                ut_spawn_thread(o, a) )
        => /\ next_position' = next_position
           /\ slots' = slots
           /\ ~leaked' ]_vars

(* C20: when no table exists, because ut_init was never called or because *)
(* its malloc failed, ut_spawn_thread fails with a sentinel, touches no    *)
(* slot and does not advance next_position.                                *)
SpawnWithoutTableFails ==
    [][ ( /\ MainIdle
          /\ threads_table = "NULL"
          /\ \E o \in {"ok", "nostack", "noctx"}, a \in TableOutcomes :
                ut_spawn_thread(o, a) )
        => /\ proc' = "run"
           /\ result' \in {TAB_FULL, SYS_ERR}
           /\ next_position' = next_position
           /\ slots' = slots ]_vars

(* ut_start returns to its caller exactly when sigfillset, setitimer or a  *)
(* sigaction fails, or when the first swapcontext fails, and then with     *)
(* SYS_ERR.                                                                *)
StartReturnsOnFailure ==
    /\ (MainIdle /\ installed = {} /\ ~itimer)
       => \A t \in BOOLEAN, sg \in SUBSET Signals, q \in BOOLEAN :
            ut_start_install(t, sg, q)
            => IF t /\ sg = Signals /\ q
               THEN pc'[MainFlow] = "start_armed" /\ result' = NoResult
               ELSE pc'[MainFlow] = "idle" /\ result' = SYS_ERR
    /\ (proc = "run" /\ pc[MainFlow] = "start_armed" /\ proc' = "run")
       => \A a \in TableOutcomes, ok \in BOOLEAN :
            ut_start_switch(a, ok)
            => IF ok
               THEN pc'[MainFlow] = "in_start" /\ result' = NoResult
               ELSE pc'[MainFlow] = "idle" /\ result' = SYS_ERR

AlarmPendingWhileThreadRuns ==
    ( /\ proc = "run"
      /\ threads_table = "live"
      /\ running \in Threads
      /\ pc[running] # "down_yield" )
    => alarm

====
